---------------------------- MODULE Spec2Model ----------------------------
(***************************************************************************)
(* A model of luthor's Tokenizer (src/src/tokenizer.rs): a cursor over the *)
(* Unicode scalars of a UTF-8 string and an append-only list of tokens.    *)
(*                                                                         *)
(* A String is modelled as what it is, a sequence of UTF-8 bytes; chars(), *)
(* nth() and slice_chars() decode those bytes.  usize arithmetic keeps its *)
(* width (UsizeBits), and an overflowing addition either panics (a build   *)
(* with overflow checks) or wraps (a build without them).                  *)
(***************************************************************************)
EXTENDS Integers, Sequences, FiniteSets, TLC

\* ------------------------------------------------------------- bounds
\* Longest text, in scalars, given to new().
MaxLen == 3
\* Width of usize in the model, in bits.
UsizeBits == 3

UsizeModulus == 2 ^ UsizeBits
UsizeMax == UsizeModulus - 1

\* ------------------------------------------------------------- text
\* The scalars the texts are made of: 'l' (one byte in UTF-8) and
\* 'é' (two bytes), as in the test data "él".
Scalars == {108, 233}

\* Category::Text is the category tokenize_next flushes pending text under;
\* Category::Keyword is the other category the tests use.
Category == {"Text", "Keyword"}

\* Option<T>: None is the empty sequence, Some(x) the one-element sequence.
None == <<>>
Some(x) == <<x>>

\* All sequences over S of length 0..n.
SeqUpTo(S, n) == UNION {[1..k -> S] : k \in 0..n}

\* The UTF-8 encoding of one scalar (one to three bytes).
encode_utf8(c) ==
    IF c < 128 THEN <<c>>
    ELSE IF c < 2048 THEN <<192 + (c \div 64), 128 + (c % 64)>>
    ELSE <<224 + (c \div 4096), 128 + ((c \div 64) % 64), 128 + (c % 64)>>

\* &str -> String: the bytes of a text given as its scalars.
RECURSIVE to_string(_)
to_string(t) ==
    IF t = <<>> THEN <<>> ELSE encode_utf8(Head(t)) \o to_string(Tail(t))

\* Number of bytes of the UTF-8 sequence that starts with lead byte b.
utf8_char_width(b) ==
    IF b < 128 THEN 1 ELSE IF b < 224 THEN 2 ELSE IF b < 240 THEN 3 ELSE 4

\* The scalar encoded by the w bytes of s that start at byte i (1-based).
decode_utf8(s, i, w) ==
    IF w = 1 THEN s[i]
    ELSE IF w = 2 THEN (s[i] % 32) * 64 + (s[i + 1] % 64)
    ELSE (s[i] % 16) * 4096 + (s[i + 1] % 64) * 64 + (s[i + 2] % 64)

\* str::char_indices(): the pairs <<byte offset (0-based), scalar>> of s,
\* decoded from byte i on.
RECURSIVE char_indices_from(_, _)
char_indices_from(s, i) ==
    IF i > Len(s) THEN <<>>
    ELSE LET w == utf8_char_width(s[i])
         IN  <<(<<i - 1, decode_utf8(s, i, w)>>)>> \o char_indices_from(s, i + w)

char_indices(s) == char_indices_from(s, 1)

\* str::chars(): the scalars of s, in order.
chars(s) ==
    LET ci == char_indices(s) IN [k \in 1..Len(ci) |-> ci[k][2]]

\* count() answering the length in bytes.
count_bytes(s) == Len(s)

\* Iterator::count() of chars().
count(s) == Len(chars(s))

\* nth() indexing the bytes instead of the scalars.
nth_by_bytes(s, n) == IF n < Len(s) THEN Some(s[n + 1]) ELSE None

\* Iterator::nth(n) of chars(): the n-th scalar (0-based), if there is one.
nth(s, n) ==
    LET cs == chars(s) IN IF n < Len(cs) THEN Some(cs[n + 1]) ELSE None

\* The byte offset slice_chars finds for scalar index n: the offset of the
\* n-th char, the length of s when n is the number of chars, else nothing.
char_byte_offset(s, n) ==
    LET ci == char_indices(s)
    IN  IF n < Len(ci) THEN Some(ci[n + 1][1])
        ELSE IF n = Len(ci) THEN Some(Len(s))
        ELSE None

\* str::slice_chars(begin, end) panics when begin > end or when either
\* index lies beyond the end of the string.
slice_chars_panics(s, begin, end) ==
    \/ begin > end
    \/ char_byte_offset(s, begin) = None
    \/ char_byte_offset(s, end) = None

\* slice_chars taking its indices for byte offsets.
slice_chars_by_bytes(s, begin, end) == SubSeq(s, begin + 1, end)

\* str::slice_chars(begin, end): the bytes of the scalars [begin, end).
slice_chars(s, begin, end) ==
    SubSeq(s, char_byte_offset(s, begin)[1] + 1, char_byte_offset(s, end)[1])

\* ------------------------------------------------------------- state
VARIABLES
    text,             \* the scalars of the &str given to new()
    data,             \* Tokenizer.data: the text's UTF-8 bytes
    char_count,       \* Tokenizer.char_count
    token_start,      \* Tokenizer.token_start
    token_position,   \* Tokenizer.token_position
    tokens,           \* Tokenizer.tokens
    panicked,         \* TRUE once a call has panicked
    overflow_checks,  \* whether the build panics on integer overflow
    op,               \* the last call: its name and arguments
    pre,              \* the Tokenizer as it was before the last call
    ret,              \* what the last call returned
    snapshot,         \* the copy the last tokens() call returned
    loop              \* the driving loop: where it is, how often it invoked

vars == <<text, data, char_count, token_start, token_position, tokens,
          panicked, overflow_checks, op, pre, ret, snapshot, loop>>

\* The Tokenizer struct, with the control state `panicked` of the thread.
Self ==
    [data |-> data, char_count |-> char_count, token_start |-> token_start,
     token_position |-> token_position, tokens |-> tokens,
     panicked |-> panicked]

\* A panic: the thread unwinds and the struct stays as it is.
panic(self) == [self EXCEPT !.panicked = TRUE]

\* Token{ lexeme, category }
Token(lexeme, category) == [lexeme |-> lexeme, category |-> category]

\* ------------------------------------------------------------- usize
\* a + b on usize overflows when the sum does not fit the word.
usize_add_overflows(a, b) == a + b > UsizeMax

\* The value of a + b on usize when the addition does not panic.
usize_add(a, b) == (a + b) % UsizeModulus

\* std::cmp::min
min(a, b) == IF a < b THEN a ELSE b

\* ------------------------------------------------------------- operations
\* new(data)
new(t) ==
    [data |-> to_string(t), char_count |-> count(to_string(t)),
     token_start |-> 0, token_position |-> 0, tokens |-> <<>>,
     panicked |-> FALSE]

\* Tokenizer::tokens(): a clone of the token list.
tokens_clone(self) == self.tokens

\* has_more_data() with <= for <.
has_more_data_inclusive(self) == self.token_position <= self.char_count

\* Tokenizer::has_more_data()
has_more_data(self) == self.token_position < self.char_count

\* advance() that moves token_start along with the cursor.
advance_dragging_start(self) ==
    IF self.token_position < self.char_count
    THEN [self EXCEPT !.token_position = self.token_position + 1,
                      !.token_start = self.token_position + 1]
    ELSE self

\* advance() without the has_more_data() test.
advance_unguarded(self) ==
    [self EXCEPT !.token_position = self.token_position + 1]

\* Tokenizer::advance()
advance(self) ==
    IF has_more_data(self)
    THEN [self EXCEPT !.token_position = self.token_position + 1]
    ELSE self

\* Tokenizer::current_char() panics when the nth() it unwraps is None.
current_char_panics(self) ==
    has_more_data(self) /\ nth(self.data, self.token_position) = None

\* Tokenizer::current_char(): the value returned when it does not panic.
current_char(self) ==
    IF has_more_data(self)
    THEN Some(nth(self.data, self.token_position)[1])
    ELSE None

\* tokenize() without the test for an empty pending range.
tokenize_unguarded(self, category) ==
    IF self.panicked THEN self
    ELSE IF slice_chars_panics(self.data, self.token_start, self.token_position)
    THEN panic(self)
    ELSE [self EXCEPT
            !.tokens = Append(self.tokens,
                Token(slice_chars(self.data, self.token_start,
                                  self.token_position), category)),
            !.token_start = self.token_position]

\* tokenize() that forgets to move token_start up to the cursor.
tokenize_keeping_start(self, category) ==
    IF self.panicked THEN self
    ELSE IF self.token_start # self.token_position
    THEN IF slice_chars_panics(self.data, self.token_start, self.token_position)
         THEN panic(self)
         ELSE [self EXCEPT
                 !.tokens = Append(self.tokens,
                     Token(slice_chars(self.data, self.token_start,
                                       self.token_position), category))]
    ELSE self

\* tokenize() inserting the token at the front of the list.
tokenize_prepending(self, category) ==
    IF self.panicked THEN self
    ELSE IF self.token_start # self.token_position
    THEN IF slice_chars_panics(self.data, self.token_start, self.token_position)
         THEN panic(self)
         ELSE [self EXCEPT
                 !.tokens = <<Token(slice_chars(self.data, self.token_start,
                                   self.token_position), category)>> \o self.tokens,
                 !.token_start = self.token_position]
    ELSE self

\* Tokenizer::tokenize(category); a thread that has panicked runs nothing.
tokenize(self, category) ==
    IF self.panicked THEN self
    ELSE IF self.token_start # self.token_position
    THEN IF slice_chars_panics(self.data, self.token_start, self.token_position)
         THEN panic(self)
         ELSE [self EXCEPT
                 !.tokens = Append(self.tokens,
                     Token(slice_chars(self.data, self.token_start,
                                       self.token_position), category)),
                 !.token_start = self.token_position]
    ELSE self

\* The assignment of tokenize_next:
\*   self.token_position = min(self.token_position + amount, self.char_count)
\* The addition panics in a build with overflow checks and wraps otherwise.
move_position(self, amount) ==
    IF self.panicked THEN self
    ELSE IF usize_add_overflows(self.token_position, amount) /\ overflow_checks
    THEN panic(self)
    ELSE [self EXCEPT !.token_position =
             min(usize_add(self.token_position, amount), self.char_count)]

\* Tokenizer::tokenize_next(amount, category)
tokenize_next(self, amount, category) ==
    tokenize(move_position(tokenize(self, "Text"), amount), category)

\* ------------------------------------------------------------- actions
Texts == SeqUpTo(Scalars, MaxLen)
\* The amounts given to tokenize_next: every amount up to one more than
\* the longest text (less than, all of, more than what remains), and the
\* two largest usize values, whose sum with a cursor past the start does
\* not fit a usize.
Amounts == (0..(MaxLen + 1)) \cup {UsizeMax - 1, UsizeMax}

NoArgs(name) == [name |-> name, amount |-> 0, category |-> "Text"]

\* The struct after a call.
Commit(self) ==
    LET after == self
    IN  /\ data' = after.data
        /\ char_count' = after.char_count
        /\ token_start' = after.token_start
        /\ token_position' = after.token_position
        /\ tokens' = after.tokens
        /\ panicked' = after.panicked

\* No driving loop: the methods are called directly.
NoLoop ==
    [pc |-> "idle", test_first |-> FALSE, invocations |-> 0,
     entry_position |-> 0]

\* The state after new(text).
InitTokenizer ==
    /\ text \in Texts
    /\ overflow_checks \in BOOLEAN
    /\ data = new(text).data
    /\ char_count = new(text).char_count
    /\ token_start = new(text).token_start
    /\ token_position = new(text).token_position
    /\ tokens = new(text).tokens
    /\ panicked = new(text).panicked
    /\ op = NoArgs("new")
    /\ pre = new(text)
    /\ ret = None
    /\ snapshot = <<>>

Init == InitTokenizer /\ loop = NoLoop

Advance ==
    /\ ~panicked
    /\ Commit(advance(Self))
    /\ op' = NoArgs("advance")
    /\ pre' = Self
    /\ ret' = None
    /\ UNCHANGED <<text, overflow_checks, snapshot, loop>>

Tokenize ==
    /\ ~panicked
    /\ \E category \in Category :
         /\ Commit(tokenize(Self, category))
         /\ op' = [name |-> "tokenize", amount |-> 0, category |-> category]
    /\ pre' = Self
    /\ ret' = None
    /\ UNCHANGED <<text, overflow_checks, snapshot, loop>>

TokenizeNext ==
    /\ ~panicked
    /\ \E amount \in Amounts, category \in Category :
         /\ Commit(tokenize_next(Self, amount, category))
         /\ op' = [name |-> "tokenize_next", amount |-> amount,
                   category |-> category]
    /\ pre' = Self
    /\ ret' = None
    /\ UNCHANGED <<text, overflow_checks, snapshot, loop>>

HasMoreData ==
    /\ ~panicked
    /\ Commit(Self)
    /\ op' = NoArgs("has_more_data")
    /\ pre' = Self
    /\ ret' = Some(has_more_data(Self))
    /\ UNCHANGED <<text, overflow_checks, snapshot, loop>>

CurrentChar ==
    /\ ~panicked
    /\ IF current_char_panics(Self)
       THEN Commit(panic(Self)) /\ ret' = None
       ELSE Commit(Self) /\ ret' = current_char(Self)
    /\ op' = NoArgs("current_char")
    /\ pre' = Self
    /\ UNCHANGED <<text, overflow_checks, snapshot, loop>>

Tokens ==
    /\ ~panicked
    /\ Commit(Self)
    /\ op' = NoArgs("tokens")
    /\ pre' = Self
    /\ ret' = None
    /\ snapshot' = tokens_clone(Self)
    /\ UNCHANGED <<text, overflow_checks, loop>>

Next ==
    \/ Advance
    \/ Tokenize
    \/ TokenizeNext
    \/ HasMoreData
    \/ CurrentChar
    \/ Tokens

Spec == Init /\ [][Next]_vars

\* ------------------------------------------------------------- driving loop
\* The loop a lexer drives its StateFunctions with: invoke the current
\* state function, replace it by its result, until the result is terminal
\* (None) or no more data remains.  A state function has exclusive access
\* to the Tokenizer and calls any of its methods, any number of times.
\* Whether the loop asks has_more_data() before the first invocation too
\* is left open, so both loops are modelled (test_first).

\* Cap of the invocation counter; above every number of invocations a
\* well-behaved run can reach.
MaxInvocations == MaxLen + 2

\* What a state function returns: Some(next state function) or None.
Results == {"next", "terminal"}

LoopInit ==
    /\ InitTokenizer
    /\ \E test_first \in BOOLEAN :
         loop = [pc |-> "enter", test_first |-> test_first,
                 invocations |-> 0, entry_position |-> 0]

\* The loop starts: one that tests first stops at once when there is no
\* data, and hands out tokens(); otherwise the initial state function is
\* invoked.
LoopEnter ==
    /\ loop.pc = "enter"
    /\ IF loop.test_first /\ ~has_more_data(Self)
       THEN /\ loop' = [loop EXCEPT !.pc = "stopped"]
            /\ snapshot' = tokens_clone(Self)
       ELSE /\ loop' = [loop EXCEPT !.pc = "invoke"]
            /\ snapshot' = snapshot
    /\ UNCHANGED <<text, data, char_count, token_start, token_position,
                   tokens, panicked, overflow_checks, op, pre, ret>>

\* The loop invokes the current state function.
LoopInvoke ==
    /\ loop.pc = "invoke"
    /\ loop.invocations < MaxInvocations
    /\ loop' = [loop EXCEPT !.pc = "running",
                            !.invocations = loop.invocations + 1,
                            !.entry_position = token_position]
    /\ UNCHANGED <<text, data, char_count, token_start, token_position,
                   tokens, panicked, overflow_checks, op, pre, ret, snapshot>>

\* What a call of the running state function leaves alone besides the
\* Tokenizer: the loop, and the record of the direct calls.
LoopCallFrame ==
    UNCHANGED <<text, overflow_checks, op, pre, ret, snapshot, loop>>

\* The amounts the state functions give tokenize_next: none, one, two
\* characters, and the largest usize.
LoopAmounts == {0, 1, 2, UsizeMax}

\* The running state function calls advance().
LoopAdvance ==
    /\ loop.pc = "running"
    /\ ~panicked
    /\ Commit(advance(Self))
    /\ LoopCallFrame

\* The running state function calls tokenize(category).
LoopTokenize ==
    /\ loop.pc = "running"
    /\ ~panicked
    /\ \E category \in Category : Commit(tokenize(Self, category))
    /\ LoopCallFrame

\* The running state function calls tokenize_next(amount, category).
LoopTokenizeNext ==
    /\ loop.pc = "running"
    /\ ~panicked
    /\ \E amount \in LoopAmounts, category \in Category :
         Commit(tokenize_next(Self, amount, category))
    /\ LoopCallFrame

\* The running state function asks has_more_data().
LoopHasMoreData ==
    /\ loop.pc = "running"
    /\ ~panicked
    /\ has_more_data(Self) \in BOOLEAN
    /\ Commit(Self)
    /\ LoopCallFrame

\* The running state function reads current_char().
LoopCurrentChar ==
    /\ loop.pc = "running"
    /\ ~panicked
    /\ IF current_char_panics(Self)
       THEN Commit(panic(Self))
       ELSE Commit(Self)
    /\ LoopCallFrame

\* The loop after the state function returned result: it stops on a
\* terminal result or when no more data remains, and hands out tokens();
\* otherwise the result is the state function it invokes next.
LoopAfter(result) ==
    IF result = "terminal" \/ ~has_more_data(Self)
    THEN /\ loop' = [loop EXCEPT !.pc = "stopped"]
         /\ snapshot' = tokens_clone(Self)
    ELSE /\ loop' = [loop EXCEPT !.pc = "invoke"]
         /\ snapshot' = snapshot

\* The running state function returns, whatever it did.
LoopReturn ==
    /\ loop.pc = "running"
    /\ ~panicked
    /\ \E result \in Results : LoopAfter(result)
    /\ UNCHANGED <<text, data, char_count, token_start, token_position,
                   tokens, panicked, overflow_checks, op, pre, ret>>

\* A state function invoked while has_more_data() was true returns a next
\* state only after it moved the cursor forward.
MakesProgress(result) ==
    (loop.entry_position < char_count /\ result = "next") =>
        token_position > loop.entry_position

\* The running state function returns, having made progress.
LoopReturnProgress ==
    /\ loop.pc = "running"
    /\ ~panicked
    /\ \E result \in Results : MakesProgress(result) /\ LoopAfter(result)
    /\ UNCHANGED <<text, data, char_count, token_start, token_position,
                   tokens, panicked, overflow_checks, op, pre, ret>>

LoopNext ==
    \/ LoopEnter
    \/ LoopInvoke
    \/ LoopAdvance
    \/ LoopTokenize
    \/ LoopTokenizeNext
    \/ LoopHasMoreData
    \/ LoopCurrentChar
    \/ LoopReturn

\* The loop driving arbitrary state functions.
LoopSpec == LoopInit /\ [][LoopNext]_vars

ProgressLoopNext ==
    \/ LoopEnter
    \/ LoopInvoke
    \/ LoopAdvance
    \/ LoopTokenize
    \/ LoopTokenizeNext
    \/ LoopHasMoreData
    \/ LoopCurrentChar
    \/ LoopReturnProgress

\* The loop driving state functions that make progress.
ProgressLoopSpec == LoopInit /\ [][ProgressLoopNext]_vars

\* ------------------------------------------------------------- properties
\* The source scalars at scalar indices [from, to), as a String.
SourceRange(from, to) == to_string(SubSeq(text, from + 1, to))

IsPrefix(a, b) == Len(a) <= Len(b) /\ SubSeq(b, 1, Len(a)) = a

\* The fields of the struct are as they were before the last call.
Unchanged(fields) ==
    /\ "tokens" \in fields => tokens = pre.tokens
    /\ "token_start" \in fields => token_start = pre.token_start
    /\ "token_position" \in fields => token_position = pre.token_position

\* C1: in every state reached through advance, tokenize and tokenize_next
\* calls, 0 <= token_start <= token_position <= char_count.
C1_IndexOrder ==
    /\ 0 <= token_start
    /\ token_start <= token_position
    /\ token_position <= char_count

\* C2: tokenize(category) with N >= 1 pending characters appends exactly one
\* token, whose lexeme is the source scalars [token_start, token_position)
\* and whose category is the given one, leaves token_position unchanged and
\* ends with token_start = token_position.
C2_TokenizeFlushesPending ==
    (op.name = "tokenize" /\ pre.token_position - pre.token_start >= 1) =>
        /\ ~panicked
        /\ tokens = Append(pre.tokens,
               Token(SourceRange(pre.token_start, pre.token_position),
                     op.category))
        /\ count(tokens[Len(tokens)].lexeme)
               = pre.token_position - pre.token_start
        /\ token_position = pre.token_position
        /\ token_start = token_position

\* A Keyword token of two scalars, the first of them two bytes long, cut
\* after a one-scalar token.
C2_Witness ==
    /\ op.name = "tokenize"
    /\ op.category = "Keyword"
    /\ pre.token_start = 1
    /\ pre.token_position = 3
    /\ Len(tokens) = 2
    /\ tokens[2] = Token(to_string(<<233, 108>>), "Keyword")

\* C3: tokenize(category) with token_start = token_position changes neither
\* the token list nor token_start nor token_position.
C3_TokenizeEmptyRangeNoOp ==
    (op.name = "tokenize" /\ pre.token_start = pre.token_position) =>
        /\ ~panicked
        /\ Unchanged({"tokens", "token_start", "token_position"})

\* tokenize on an empty pending range in the middle of the text, after a
\* token has been stored.
C3_Witness ==
    /\ op.name = "tokenize"
    /\ pre.token_start = pre.token_position
    /\ pre.token_position = 1
    /\ char_count = 2
    /\ Len(tokens) = 1

\* The tokens tokenize_next(amount, cat) is to append with P pending and R
\* remaining characters: a Text token of the P pending ones if P > 0, then
\* a cat token of the next min(amount, R) if that is > 0.
ExpectedNextTokens ==
    LET P == pre.token_position - pre.token_start
        R == pre.char_count - pre.token_position
        n == min(op.amount, R)
    IN  (IF P > 0
         THEN <<Token(SourceRange(pre.token_start, pre.token_position), "Text")>>
         ELSE <<>>)
        \o
        (IF n > 0
         THEN <<Token(SourceRange(pre.token_position, pre.token_position + n),
                      op.category)>>
         ELSE <<>>)

\* C4: tokenize_next(amount, cat) appends the pending characters as a Text
\* token (if any), then the next min(amount, R) characters as a cat token
\* (if any), and nothing else, and ends with
\* token_start = token_position = old token_position + min(amount, R).
C4_TokenizeNextEffect ==
    op.name = "tokenize_next" =>
        /\ tokens = pre.tokens \o ExpectedNextTokens
        /\ token_position = pre.token_position
               + min(op.amount, pre.char_count - pre.token_position)
        /\ token_start = token_position

\* C5: for every usize amount, also one whose sum with token_position does
\* not fit a usize, tokenize_next completes without error and sets
\* token_position to the minimum of the mathematical sum and char_count.
C5_TokenizeNextClamps ==
    op.name = "tokenize_next" =>
        /\ ~panicked
        /\ token_position = min(pre.token_position + op.amount, char_count)

\* C6: advance adds exactly one to token_position when token_position <
\* char_count and changes nothing otherwise; token_position never exceeds
\* char_count and stays at char_count once there.
C6_AdvanceStopsAtEnd ==
    /\ token_position <= char_count
    /\ op.name = "advance" =>
        /\ ~panicked
        /\ Unchanged({"tokens", "token_start"})
        /\ pre.token_position < char_count =>
               token_position = pre.token_position + 1
        /\ pre.token_position = char_count =>
               token_position = char_count

\* advance called at the end of a non-empty text.
C6_Witness ==
    /\ op.name = "advance"
    /\ pre.token_position = char_count
    /\ char_count = 2
    /\ token_position = 2

\* C7: has_more_data() is true exactly when token_position < char_count, and
\* current_char() is the source scalar at scalar index token_position when
\* has_more_data() is true, and None otherwise.
C7_PositionQueries ==
    /\ has_more_data(Self) <=> token_position < char_count
    /\ ~current_char_panics(Self)
    /\ current_char(Self) =
           IF has_more_data(Self) THEN Some(text[token_position + 1]) ELSE None
    /\ op.name = "has_more_data" => ret = Some(token_position < char_count)
    /\ (op.name = "current_char" /\ token_position < Len(text)) =>
           ret = Some(text[token_position + 1])
    /\ (op.name = "current_char" /\ token_position >= Len(text)) => ret = None

\* current_char() answering the one-byte scalar that follows a two-byte one.
C7_Witness ==
    /\ op.name = "current_char"
    /\ text = <<233, 108>>
    /\ token_position = 1
    /\ ret = Some(108)

\* C8: every stored token has a non-empty lexeme.
C8_NoEmptyLexeme ==
    \A i \in 1..Len(tokens) : tokens[i].lexeme # <<>>

\* tokenize_next with amount 0 and nothing pending, after tokens were stored.
C8_Witness ==
    /\ op.name = "tokenize_next"
    /\ op.amount = 0
    /\ pre.token_start = pre.token_position
    /\ Len(tokens) = 2
    /\ ~panicked

\* C9: no call panics: the range tokenize gives slice_chars satisfies
\* token_start <= token_position <= char_count and the nth(token_position)
\* current_char unwraps is a character.
C9_NoCallPanics ==
    /\ ~panicked
    /\ ~slice_chars_panics(data, token_start, token_position)
    /\ ~current_char_panics(Self)

\* C10: the token list before a call is a prefix of the list after it, and
\* a copy tokens() returned is a prefix of the list ever after.
C10_TokensAppendOnly ==
    /\ IsPrefix(pre.tokens, tokens)
    /\ IsPrefix(snapshot, tokens)

\* A token appended after tokens() returned a non-empty copy.
C10_Witness ==
    /\ op.name = "tokenize"
    /\ Len(snapshot) = 1
    /\ Len(pre.tokens) = 1
    /\ Len(tokens) = 2
    /\ tokens[1].lexeme # tokens[2].lexeme

\* C11: new(T) stores T, counts its scalars (not its bytes) in char_count,
\* and starts with token_start = token_position = 0 and no token.
C11_NewInitializes ==
    /\ char_count = Len(text)
    /\ op.name = "new" =>
        /\ chars(data) = text
        /\ data = to_string(text)
        /\ token_start = 0
        /\ token_position = 0
        /\ tokens = <<>>
        /\ ~panicked

\* new() on a text of three scalars and five bytes.
C11_Witness ==
    /\ op.name = "new"
    /\ text = <<233, 108, 233>>
    /\ Len(data) = 5
    /\ char_count = 3

\* C12: tokenize called twice in succession leaves the state the first call
\* left: the second call appends nothing and moves neither index, whatever
\* the two categories.
C12_TokenizeTwice ==
    /\ \A c1, c2 \in Category :
           tokenize(tokenize(Self, c1), c2) = tokenize(Self, c1)
    /\ op.name = "tokenize" => \A c \in Category : tokenize(Self, c) = Self

\* The state after a tokenize that stored a Text token of two scalars; a
\* second tokenize, as Keyword, changes nothing.
C12_Witness ==
    /\ op.name = "tokenize"
    /\ op.category = "Text"
    /\ pre.token_start = 0
    /\ pre.token_position = 2
    /\ Len(tokens) = 1
    /\ tokenize(Self, "Keyword") = Self

\* C13: on the empty text char_count = 0 and has_more_data() is false, and
\* whatever is called the token list stays empty, both indices stay 0 and
\* current_char() is None.
C13_EmptyText ==
    text = <<>> =>
        /\ char_count = 0
        /\ ~has_more_data(Self)
        /\ ~panicked
        /\ tokens = <<>>
        /\ token_start = 0
        /\ token_position = 0
        /\ current_char(Self) = None
        /\ op.name = "has_more_data" => ret = Some(FALSE)
        /\ op.name = "current_char" => ret = None

\* tokenize_next asking the empty text for the largest amount.
C13_Witness ==
    /\ text = <<>>
    /\ op.name = "tokenize_next"
    /\ op.amount = UsizeMax
    /\ op.category = "Keyword"

\* C14: advance and the three read accessors leave the token list and
\* token_start alone (the accessors leave everything alone), tokenize_next
\* changes them only as its two tokenize calls do, and nothing changes data
\* or char_count.
C14_Frame ==
    /\ data = pre.data
    /\ char_count = pre.char_count
    /\ data = to_string(text)
    /\ op.name \in {"advance", "has_more_data", "current_char", "tokens"} =>
           Unchanged({"tokens", "token_start"})
    /\ op.name \in {"has_more_data", "current_char", "tokens"} => Self = pre
    /\ op.name = "tokenize_next" =>
           LET flushed == tokenize(pre, "Text")
           IN  \/ tokens = flushed.tokens /\ token_start = flushed.token_start
               \/ LET moved == [flushed EXCEPT
                                     !.token_position = token_position]
                       after == tokenize(moved, op.category)
                   IN  /\ tokens = after.tokens
                       /\ token_start = after.token_start

\* advance moving the cursor with one token stored and token_start at 1.
C14_Witness ==
    /\ op.name = "advance"
    /\ pre.token_position = 1
    /\ token_position = 2
    /\ token_start = 1
    /\ Len(tokens) = 1

\* The lexemes of a token list, concatenated in list order.
RECURSIVE ConcatLexemes(_)
ConcatLexemes(ts) ==
    IF ts = <<>> THEN <<>> ELSE Head(ts).lexeme \o ConcatLexemes(Tail(ts))

\* C16: the lexemes of the stored tokens, concatenated in list order, are
\* the source characters [0, token_start): their lengths sum to token_start
\* and there are at most token_start tokens.
C16_TokensTileFlushedPrefix ==
    /\ ConcatLexemes(tokens) = SourceRange(0, token_start)
    /\ count(ConcatLexemes(tokens)) = token_start
    /\ Len(tokens) <= token_start

\* Two tokens of different text tiling the first three scalars.
C16_Witness ==
    /\ Len(tokens) = 2
    /\ token_start = 3
    /\ tokens[1].lexeme = to_string(<<108>>)
    /\ tokens[2].lexeme = to_string(<<233, 108>>)

\* advance() called n times.
RECURSIVE AdvanceTimes(_, _)
AdvanceTimes(self, n) ==
    IF n = 0 THEN self ELSE AdvanceTimes(advance(self), n - 1)

\* C17: tokenize_next(amount, cat) ends in the state (token list,
\* token_start, token_position) that tokenize(Text), amount times advance,
\* tokenize(cat) end in.
C17_TokenizeNextAsSequence ==
    op.name = "tokenize_next" =>
        LET seq == tokenize(AdvanceTimes(tokenize(pre, "Text"), op.amount),
                            op.category)
        IN  /\ tokens = seq.tokens
            /\ token_start = seq.token_start
            /\ token_position = seq.token_position

\* C18: no call moves token_position or token_start backwards.
C18_IndicesNeverDecrease ==
    /\ token_position >= pre.token_position
    /\ token_start >= pre.token_start

\* C15: the driving loop flushes nothing by itself: its own steps leave the
\* Tokenizer as it is, and when it stops, the list it hands out is the
\* token list as the state functions' tokenize and tokenize_next calls left
\* it, tiling [0, token_start), so that pending characters
\* [token_start, token_position) are in no token.
C15_NoImplicitFlush ==
    /\ [](loop.pc = "stopped" =>
            /\ snapshot = tokens
            /\ ConcatLexemes(tokens) = SourceRange(0, token_start)
            /\ count(ConcatLexemes(tokens)) = token_start)
    /\ [][loop' # loop =>
            UNCHANGED <<tokens, token_start, token_position>>]_vars

\* The loop stopped with one token stored and two characters pending.
C15_Witness ==
    /\ loop.pc = "stopped"
    /\ token_start = 1
    /\ token_position = 3
    /\ Len(tokens) = 1
    /\ snapshot = tokens

\* C19 as stated: with state functions that make progress, the loop makes
\* at most char_count invocations.
C19_AtMostCharCount ==
    loop.invocations <= char_count

\* C19, amended: with state functions that make progress, a loop that tests
\* has_more_data() before the first invocation makes at most char_count
\* invocations, and one that tests only after an invocation makes at most
\* max(1, char_count): the empty text costs it one invocation.  After the
\* first invocation the loop invokes again only while more data remains.
C19_AtMostCharCountOrOne ==
    /\ loop.test_first => loop.invocations <= char_count
    /\ loop.invocations <= (IF char_count > 1 THEN char_count ELSE 1)
    /\ (loop.pc = "invoke" /\ loop.invocations > 0) =>
           /\ has_more_data(Self)
           /\ loop.invocations <= token_position
    /\ (loop.pc = "stopped" /\ ~loop.test_first) => loop.invocations >= 1

\* Three invocations, each moving one character on, consumed a text of
\* three characters, and the loop stopped.
C19_Witness ==
    /\ loop.pc = "stopped"
    /\ loop.invocations = 3
    /\ char_count = 3
    /\ token_position = 3
    /\ Len(tokens) = 3

============================================================================
